---- MODULE Spec2Model ----
(***************************************************************************)
(* A model of jiratui's assignee search widget (AssigneeSearchInput and    *)
(* its filter-bar subclass UserSelectionInput, widgets/filters.py) and of  *)
(* the wire-parameter contract of user_assignable_search.                  *)
(*                                                                         *)
(* The widget runs on Textual's single cooperative task.  The parts of     *)
(* Textual the widget relies on are modelled by what they do:              *)
(*   - assigning Input.value stores the text at once and, when the text    *)
(*     differs from the stored one, posts an Input.Changed message that    *)
(*     carries the new text; post_message only enqueues, the handler runs  *)
(*     when the message pump later takes the message from the queue;       *)
(*   - set_timer arms a one-shot timer, Timer.stop() disarms it, a timer   *)
(*     that has run down calls its callback once;                          *)
(*   - OptionList keeps its own list of prompts and a highlighted index;   *)
(*   - query_one(Input) and query_one(OptionList) find the child widgets   *)
(*     that compose() yields once the widget is mounted, and raise         *)
(*     NoMatches on a widget that has no such child yet.                   *)
(***************************************************************************)
EXTENDS Integers, Sequences, FiniteSets, TLC

\* ------------------------------------------------------------- bounds
MaxLen == 4          \* longest text the user types
MaxQueue == 1        \* messages waiting in the widget's message queue
MaxTimers == 2       \* timers Textual can hold armed at once
MaxPosted == 1       \* searches requested and not yet answered
MaxNotifications == 2  \* messages waiting in the work item input's queue
MaxEchoes == 3       \* write-backs of clean_value followed after one edit

\* ------------------------------------------------- program constants
\* jiratui.constants, imported at filters.py:8
FULL_TEXT_SEARCH_DEFAULT_MINIMUM_TERM_LENGTH == 3
\* the debounce interval, in ticks of the model's clock
ASSIGNEE_SEARCH_DEBOUNCE_SECONDS == 2

\* --------------------------------------------------------------- data
None == "None"                       \* Python's None, for ids and texts
NoIndex == -1                        \* OptionList.highlighted is None
NoTimer == 0                         \* _search_timer is None
Chars == {"a", " "}
Whitespace == {" "}

\* Every text of at most n characters.
RECURSIVE TextsUpTo(_)
TextsUpTo(n) ==
    IF n = 0 THEN {<<>>}
    ELSE LET shorter == TextsUpTo(n - 1)
         IN  shorter \cup {Append(t, c) : t \in {s \in shorter : Len(s) = n - 1}, c \in Chars}

\* str.strip(): the text without its leading and trailing whitespace.
RECURSIVE LStrip(_)
LStrip(s) == IF s # <<>> /\ Head(s) \in Whitespace THEN LStrip(Tail(s)) ELSE s

RECURSIVE RStrip(_)
RStrip(s) ==
    IF s # <<>> /\ s[Len(s)] \in Whitespace THEN RStrip(SubSeq(s, 1, Len(s) - 1)) ELSE s

Strip(s) == RStrip(LStrip(s))

\* The candidates a search can return: (display name, account id).
Adam == [name |-> <<"a", "a", "a">>, aid |-> "id1"]
Al == [name |-> <<"a">>, aid |-> "id2"]
AccountIds == {"id1", "id2", "id9"}   \* id9 is the id of no candidate
Preselections == {None, "id2", "id9"}
\* The candidate lists the host hands to the widget.
OptionLists == {<<>>, <<Adam>>, <<Adam, Al>>}
MaxOptions == 2

VARIABLES
    _selection,            \* account id of the selected user, or None
    _options,              \* the candidate list, a sequence of (name, aid)
    _search_timer,         \* the timer handle (a slot of timers), or NoTimer
    _programmatic_update,  \* the guard flag of _write_input
    _options_visible,      \* whether the option list is shown
    value,                 \* Input.value
    prompts,               \* the prompts the OptionList holds, in order
    highlighted,           \* OptionList.highlighted, or NoIndex
    display,               \* OptionList.styles.display
    queue,                 \* the widget's message queue (Changed, Submitted, Key)
    timers,                \* Textual's timers: slot -> [armed, query, remaining]
    posted,                \* the queries of the UserSearchRequested messages posted
                           \* whose answer the host has not yet passed on
    mounted,               \* whether compose() and on_mount() have run
    variant,               \* the backend variant the host talks to
    request,               \* the last call of user_assignable_search
    wire,                  \* the query parameters that call put on the wire
    raised,                \* the exception the last call raised, or None
    last,                  \* history: the last operation, [op, idx, src]
    confirmed,             \* history: a selection was confirmed, nothing but idle
                           \* ticks since
    edit,                  \* history: the last text change a handler acted on
    sinceEdit,             \* history: clock ticks since that change
    emitted,               \* history: UserSearchRequested posted since that change
    preselected,           \* history: the id set_value selected, nothing but
                           \* idle ticks since; None otherwise
    cleared                \* history: clear() was called while the timer of a
                           \* user's edit was running, nothing but idle ticks since

widget == <<_selection, _options, _search_timer, _programmatic_update,
            _options_visible, value, prompts, highlighted, display>>
env == <<queue, timers, posted, mounted, variant, request, wire>>
hist == <<raised, last, confirmed, edit, sinceEdit, emitted, preselected, cleared>>
vars == <<widget, env, hist>>

\* ------------------------------------------------ the state as a value
\* The handlers below are functions from state to state, so that a handler
\* can call another one the way the code does.
Here ==
    [selection |-> _selection, options |-> _options, search_timer |-> _search_timer,
     programmatic_update |-> _programmatic_update, options_visible |-> _options_visible,
     value |-> value, prompts |-> prompts, highlighted |-> highlighted,
     display |-> display, queue |-> queue, timers |-> timers, posted |-> posted,
     mounted |-> mounted, raised |-> None]

Becomes(s) ==
    /\ _selection' = s.selection
    /\ _options' = s.options
    /\ _search_timer' = s.search_timer
    /\ _programmatic_update' = s.programmatic_update
    /\ _options_visible' = s.options_visible
    /\ value' = s.value
    /\ prompts' = s.prompts
    /\ highlighted' = s.highlighted
    /\ display' = s.display
    /\ queue' = s.queue
    /\ timers' = s.timers
    /\ posted' = s.posted
    /\ mounted' = s.mounted
    /\ raised' = s.raised

\* ------------------------------------------------------------ Textual
Message(type, text, src) == [type |-> type, value |-> text, src |-> src]
Idle == [armed |-> FALSE, query |-> <<>>, remaining |-> 0]

\* An exception that is raised ends the handler: the statements after the
\* raising one do not run.  s.raised holds the exception on its way out, and
\* an operator applied to such a state leaves it as it is.
Raise(s, exception) == [s EXCEPT !.raised = exception]

\* self.query_one(Input), self.query_one(OptionList): the child is there
\* once the widget is mounted; NoMatches before.
QueryOne(s) == IF s.raised = None /\ ~s.mounted THEN Raise(s, "NoMatches") ELSE s

\* Input.value = text: the reactive stores the text and, when it differs
\* from the stored one, its watcher posts Input.Changed(text).  src says who
\* made the write; no handler reads it.
InputSetValue(s, text, src) ==
    IF s.raised # None \/ text = s.value THEN s
    ELSE [s EXCEPT !.value = text,
                   !.queue = Append(@, Message("Changed", text, src))]

\* OptionList.set_options(names): the prompts are replaced, nothing is
\* highlighted.
OptionListSetOptions(s, names) ==
    IF s.raised # None THEN s
    ELSE [s EXCEPT !.prompts = names, !.highlighted = NoIndex]

FreeSlots(tm) == {k \in 1..MaxTimers : ~tm[k].armed}
Lowest(S) == CHOOSE k \in S : \A j \in S : k <= j

\* Mutant: the callback is due at once (leading edge).
SetTimerLeadingEdge(s, delay, query) ==
    LET k == Lowest(FreeSlots(s.timers))
    IN  [s EXCEPT !.timers[k] = [armed |-> TRUE, query |-> query, remaining |-> 0],
                  !.search_timer = k]

\* set_timer(delay, callback): arms a one-shot timer and returns its handle.
\* The callback posts UserSearchRequested(query).
SetTimer(s, delay, query) ==
    LET k == Lowest(FreeSlots(s.timers))
    IN  [s EXCEPT !.timers[k] = [armed |-> TRUE, query |-> query, remaining |-> delay],
                  !.search_timer = k]

\* Mutant: the timer is not stopped.
TimerStopForgotten(s, k) == s

\* Timer.stop(): the timer never calls its callback afterwards.
TimerStop(s, k) == [s EXCEPT !.timers[k] = Idle]

\* ---------------------------------------------- AssigneeSearchInput
_show_options(s) ==
    LET s1 == QueryOne(s)
    IN  IF s1.raised # None THEN s1
        ELSE [s1 EXCEPT !.display = "block", !.options_visible = TRUE]

_hide_options(s) ==
    LET s1 == QueryOne(s)
    IN  IF s1.raised # None THEN s1
        ELSE [s1 EXCEPT !.display = "none", !.options_visible = FALSE]

\* There is no try/finally: the last assignment runs only when the write
\* has not raised.
_write_input(s, text) ==
    IF s.raised # None THEN s
    ELSE LET s1 == [s EXCEPT !.programmatic_update = TRUE]
             s2 == InputSetValue(QueryOne(s1), text, "prog")
         IN  IF s2.raised # None THEN s2
             ELSE [s2 EXCEPT !.programmatic_update = FALSE]

Names(options) == [i \in 1..Len(options) |-> options[i].name]

\* Mutant: the highlight is left where OptionList.set_options put it.
set_options_no_highlight(s, options) ==
    LET s1 == [s EXCEPT !.options = options]
        s2 == OptionListSetOptions(QueryOne(s1), Names(options))
    IN  IF options # <<>> THEN _show_options(s2) ELSE _hide_options(s2)

\* Mutant: new candidates drop the selection.
set_options_deselects(s, options) ==
    LET s1 == [s EXCEPT !.options = options, !.selection = None]
        s2 == OptionListSetOptions(QueryOne(s1), Names(options))
    IN  IF s2.raised # None THEN s2
        ELSE IF options # <<>>
             THEN _show_options([s2 EXCEPT !.highlighted = 0])
             ELSE _hide_options(s2)

set_options(s, options) ==
    LET s1 == [s EXCEPT !.options = options]
        s2 == OptionListSetOptions(QueryOne(s1), Names(options))
    IN  IF s2.raised # None THEN s2
        ELSE IF options # <<>>
             THEN _show_options([s2 EXCEPT !.highlighted = 0])
             ELSE _hide_options(s2)

\* The first candidate of options whose id is account_id, 0 when none.
FirstMatch(options, account_id) ==
    LET hits == {i \in 1..Len(options) : options[i].aid = account_id}
    IN  IF hits = {} THEN 0 ELSE Lowest(hits)

\* Mutant: the id is taken as the selection before it is looked up.
set_value_unchecked(s, account_id) ==
    LET i == FirstMatch(s.options, account_id)
    IN  IF i = 0 THEN [s EXCEPT !.selection = account_id]
        ELSE _hide_options(
                 _write_input([s EXCEPT !.selection = account_id], s.options[i].name))

set_value(s, account_id) ==
    LET i == FirstMatch(s.options, account_id)
    IN  IF i = 0 THEN s
        ELSE _hide_options(
                 _write_input([s EXCEPT !.selection = account_id], s.options[i].name))

\* Mutant: the candidates are kept.
clear_keeps_options(s) ==
    _hide_options(_write_input([s EXCEPT !.selection = None], <<>>))

\* Mutant: the list is left as it is shown.
clear_keeps_list(s) ==
    _write_input([s EXCEPT !.selection = None, !.options = <<>>], <<>>)

clear(s) ==
    _hide_options(_write_input([s EXCEPT !.selection = None, !.options = <<>>], <<>>))

\* Mutant: the list is left open.
_select_option_open(s, index) ==
    IF index < Len(s.options)
    THEN IF index < 0 - Len(s.options)
         THEN [s EXCEPT !.raised = "IndexError"]
         ELSE LET i == IF index >= 0 THEN index + 1 ELSE Len(s.options) + index + 1
                  s1 == [s EXCEPT !.selection = s.options[i].aid]
              IN  _write_input(s1, s.options[i].name)
    ELSE s

\* index is a Python index: 0 is the first candidate, -1 the last.
_select_option(s, index) ==
    IF index < Len(s.options)
    THEN IF index < 0 - Len(s.options)
         THEN [s EXCEPT !.raised = "IndexError"]
         ELSE LET i == IF index >= 0 THEN index + 1 ELSE Len(s.options) + index + 1
                  s1 == [s EXCEPT !.selection = s.options[i].aid]
              IN  _hide_options(_write_input(s1, s.options[i].name))
    ELSE s

\* Mutant: the handle is dropped, the timer it refers to is not stopped.
_on_input_changed_stacks(s, event) ==
    IF s.programmatic_update THEN s
    ELSE LET s1 == [s EXCEPT !.search_timer = NoTimer]
             s2 == [s1 EXCEPT !.selection = None]
             query == Strip(event.value)
         IN  IF Len(query) >= FULL_TEXT_SEARCH_DEFAULT_MINIMUM_TERM_LENGTH
             THEN SetTimer(s2, ASSIGNEE_SEARCH_DEBOUNCE_SECONDS, query)
             ELSE _hide_options(s2)

\* Mutant: the list is hidden whatever the length of the text.
_on_input_changed_hides(s, event) ==
    IF s.programmatic_update THEN s
    ELSE LET s1 == IF s.search_timer # NoTimer
                   THEN [TimerStop(s, s.search_timer) EXCEPT !.search_timer = NoTimer]
                   ELSE s
             s2 == [s1 EXCEPT !.selection = None]
             query == Strip(event.value)
         IN  IF Len(query) >= FULL_TEXT_SEARCH_DEFAULT_MINIMUM_TERM_LENGTH
             THEN _hide_options(SetTimer(s2, ASSIGNEE_SEARCH_DEBOUNCE_SECONDS, query))
             ELSE _hide_options(s2)

\* Mutant: the selection is cleared only when a search is scheduled.
_on_input_changed_keeps_selection(s, event) ==
    IF s.programmatic_update THEN s
    ELSE LET s1 == IF s.search_timer # NoTimer
                   THEN [TimerStop(s, s.search_timer) EXCEPT !.search_timer = NoTimer]
                   ELSE s
             query == Strip(event.value)
         IN  IF Len(query) >= FULL_TEXT_SEARCH_DEFAULT_MINIMUM_TERM_LENGTH
             THEN SetTimer([s1 EXCEPT !.selection = None],
                           ASSIGNEE_SEARCH_DEBOUNCE_SECONDS, query)
             ELSE _hide_options(s1)

_on_input_changed(s, event) ==
    IF s.programmatic_update THEN s
    ELSE LET s1 == IF s.search_timer # NoTimer
                   THEN [TimerStop(s, s.search_timer) EXCEPT !.search_timer = NoTimer]
                   ELSE s
             s2 == [s1 EXCEPT !.selection = None]
             query == Strip(event.value)
         IN  IF Len(query) >= FULL_TEXT_SEARCH_DEFAULT_MINIMUM_TERM_LENGTH
             THEN SetTimer(s2, ASSIGNEE_SEARCH_DEBOUNCE_SECONDS, query)
             ELSE _hide_options(s2)

_on_input_submitted(s) ==
    IF s.options_visible /\ s.highlighted # NoIndex
    THEN _select_option(s, s.highlighted)
    ELSE s

\* Mutant: Escape also drops the selection.
on_key_escape_deselects(s, key) ==
    IF ~s.options_visible THEN s
    ELSE LET h == s.highlighted
             option_count == Len(s.prompts)
         IN  CASE key = "down" ->
                    IF h # NoIndex /\ h < option_count - 1
                    THEN [s EXCEPT !.highlighted = h + 1]
                    ELSE IF h = NoIndex /\ option_count > 0
                         THEN [s EXCEPT !.highlighted = 0]
                         ELSE s
               [] key = "up" ->
                    IF h # NoIndex /\ h > 0
                    THEN [s EXCEPT !.highlighted = h - 1]
                    ELSE s
               [] key = "escape" -> _hide_options([s EXCEPT !.selection = None])
               [] OTHER -> s

\* Mutant: the highlight wraps around at either end.
on_key_wraps(s, key) ==
    IF ~s.options_visible THEN s
    ELSE LET h == s.highlighted
             option_count == Len(s.prompts)
         IN  CASE key = "down" ->
                    IF h # NoIndex /\ h < option_count - 1
                    THEN [s EXCEPT !.highlighted = h + 1]
                    ELSE IF option_count > 0
                         THEN [s EXCEPT !.highlighted = 0]
                         ELSE s
               [] key = "up" ->
                    IF h # NoIndex /\ h > 0
                    THEN [s EXCEPT !.highlighted = h - 1]
                    ELSE IF option_count > 0
                         THEN [s EXCEPT !.highlighted = option_count - 1]
                         ELSE s
               [] key = "escape" -> _hide_options(s)
               [] OTHER -> s

on_key(s, key) ==
    IF ~s.options_visible THEN s
    ELSE LET h == s.highlighted
             option_count == Len(s.prompts)
         IN  CASE key = "down" ->
                    IF h # NoIndex /\ h < option_count - 1
                    THEN [s EXCEPT !.highlighted = h + 1]
                    ELSE IF h = NoIndex /\ option_count > 0
                         THEN [s EXCEPT !.highlighted = 0]
                         ELSE s
               [] key = "up" ->
                    IF h # NoIndex /\ h > 0
                    THEN [s EXCEPT !.highlighted = h - 1]
                    ELSE s
               [] key = "escape" -> _hide_options(s)
               [] OTHER -> s

\* ------------------------------------------------ UserSelectionInput
\* users is None (items empty) or a dict with the fetched users and the
\* account id to preselect (None when there is none).
watch_users(s, items, selection) ==
    IF items # <<>>
    THEN LET s1 == [s EXCEPT !.options = items]
         IN  IF selection # None THEN set_value(s1, selection) ELSE s1
    ELSE s

\* ----------------------------------------------- WorkItemInputWidget
\* The widget is an Input: value is its own text, and its @on(Input.Changed)
\* handler writes the stripped text of the notification back.  (event.value
\* is the text the notification carries, never None.)
clean_value(s, event) == InputSetValue(s, Strip(event.value), "prog")

\* ------------------------------------------------------------ the host
\* Python's Optional[str]: NoText is None, Some(t) the string t.
NoText == <<>>
Some(t) == <<t>>
IssueKeys == {None, "ABC-1", "ABC-2", "XY-7"}
Queries == {NoText} \cup {Some(t) : t \in TextsUpTo(MaxLen)}

\* Mutant: the cloud name for either variant.
TextParameterCloudOnly(v) == "query"

\* The name the search text travels under.
TextParameter(v) == IF v = "cloud" THEN "query" ELSE "username"

\* Mutant: an absent or empty text is sent as an empty string.
SearchParameterAdapterEmptyValue(v, issue_key, query) ==
    LET text == IF query # NoText
                THEN TextParameter(v) :> query[1]
                ELSE TextParameter(v) :> <<>>
        scope == IF issue_key # None THEN "issueKey" :> issue_key ELSE <<>>
    IN  text @@ scope

\* user_assignable_search's query parameters: the text under the variant's
\* name when there is a non-empty text, the issue key when there is one.
SearchParameterAdapter(v, issue_key, query) ==
    LET text == IF query # NoText /\ query[1] # <<>>
                THEN TextParameter(v) :> query[1]
                ELSE <<>>
        scope == IF issue_key # None THEN "issueKey" :> issue_key ELSE <<>>
    IN  text @@ scope

\* ------------------------------------------------------------ actions
Op(op, idx, src) == [op |-> op, idx |-> idx, src |-> src]

\* Nothing is pending in state s that could show the list later on its own:
\* no armed timer, no search on its way, and no message was waiting (q) when
\* the operation began.
Quiescent(s, q) ==
    /\ \A k \in 1..MaxTimers : ~s.timers[k].armed
    /\ s.posted = <<>>
    /\ q = <<>>

\* The timer _search_timer refers to is still running down or about to fire.
Pending(s) == s.search_timer # NoTimer /\ s.timers[s.search_timer].armed

\* The valid positions of _select_option's index.
InRange(index) == 0 <= index /\ index < Len(_options)

\* The user's keystrokes reach the focused Input, which changes its value
\* (a character typed or deleted) or posts Submitted (Enter); the arrow keys
\* and Escape bubble to the widget as Key events.
UserStep(s, op) ==
    /\ mounted
    /\ Becomes(s)
    /\ last' = Op(op, 0, "user")
    /\ confirmed' = FALSE
    /\ preselected' = None
    /\ cleared' = FALSE
    /\ UNCHANGED <<variant, request, wire, edit, sinceEdit, emitted>>

TypeChar(c) ==
    /\ Len(value) < MaxLen
    /\ Len(queue) < MaxQueue
    /\ UserStep(InputSetValue(Here, Append(value, c), "user"), "type")

Backspace ==
    /\ value # <<>>
    /\ Len(queue) < MaxQueue
    /\ UserStep(InputSetValue(Here, SubSeq(value, 1, Len(value) - 1), "user"), "type")

PressEnter ==
    /\ Len(queue) < MaxQueue
    /\ UserStep([Here EXCEPT !.queue = Append(@, Message("Submitted", value, "user"))],
                "enter")

PressKey(key) ==
    /\ Len(queue) < MaxQueue
    /\ UserStep([Here EXCEPT !.queue = Append(@, Message("Key", <<key>>, "user"))],
                "key")

\* The message pump takes the next message and runs its handler.
Deliver ==
    /\ queue # <<>>
    /\ LET m == Head(queue)
           s == [Here EXCEPT !.queue = Tail(queue)]
       IN  CASE m.type = "Changed" ->
                  /\ FreeSlots(timers) # {}
                  /\ Becomes(_on_input_changed(s, m))
                  /\ last' = Op("changed", IF _selection # None THEN 1 ELSE 0, m.src)
                  /\ UNCHANGED <<confirmed, preselected, cleared>>
                  /\ IF _programmatic_update
                     THEN UNCHANGED <<edit, sinceEdit, emitted>>
                     ELSE /\ edit' = [query |-> Strip(m.value), src |-> m.src,
                                      rapid |-> Pending(Here)]
                          /\ sinceEdit' = 0
                          /\ emitted' = <<>>
             [] m.type = "Submitted" ->
                  LET t == _on_input_submitted(s)
                      acted == _options_visible /\ highlighted # NoIndex
                  IN  /\ Becomes(t)
                      /\ last' = Op("submitted", IF acted THEN highlighted ELSE NoIndex, m.src)
                      /\ confirmed' = (acted /\ InRange(highlighted) /\ Quiescent(t, s.queue))
                      /\ UNCHANGED <<edit, sinceEdit, emitted, preselected, cleared>>
             [] m.type = "Key" ->
                  \* last.idx: the row that was highlighted when the key
                  \* came, NoIndex when the list was hidden
                  /\ Becomes(on_key(s, m.value[1]))
                  /\ last' = Op("key:" \o m.value[1],
                                IF _options_visible THEN highlighted ELSE NoIndex, m.src)
                  /\ UNCHANGED <<confirmed, edit, sinceEdit, emitted, preselected, cleared>>
    /\ UNCHANGED <<variant, request, wire>>

\* The host (a screen, a test) calls the widget's methods, when the message
\* queue has room for the notification a call may post.
HostStep(s, op, idx) ==
    /\ Len(queue) < MaxQueue
    /\ Becomes(s)
    /\ last' = Op(op, idx, "host")
    /\ UNCHANGED <<variant, request, wire, edit, sinceEdit, emitted>>

SetOptionsCall(options) ==
    /\ HostStep(set_options(Here, options), "set_options", 0)
    /\ confirmed' = FALSE
    /\ preselected' = None
    /\ cleared' = FALSE

\* preselected: the id, when it is the id of a known candidate and nothing
\* was pending that could post a search by itself.
SetValueCall(account_id) ==
    LET t == set_value(Here, account_id)
    IN  /\ HostStep(t, "set_value", 0)
        /\ confirmed' = FALSE
        /\ preselected' = IF /\ FirstMatch(_options, account_id) # 0
                              /\ t.raised = None
                              /\ Quiescent(t, queue)
                           THEN account_id ELSE None
        /\ cleared' = FALSE

\* cleared: the timer a user's edit scheduled was running, and no search was
\* on its way whose answer could show the list.
ClearCall ==
    LET t == clear(Here)
    IN  /\ HostStep(t, "clear", 0)
        /\ confirmed' = FALSE
        /\ preselected' = None
        /\ cleared' = (/\ Pending(Here)
                       /\ edit.src = "user"
                       /\ posted = <<>>
                       /\ queue = <<>>
                       /\ t.raised = None)

WatchUsers(items, selection) ==
    LET t == watch_users(Here, items, selection)
    IN  /\ HostStep(t, "watch_users", 0)
        /\ confirmed' = FALSE
        /\ preselected' = IF /\ selection # None
                              /\ FirstMatch(items, selection) # 0
                              /\ t.raised = None
                              /\ Quiescent(t, queue)
                           THEN selection ELSE None
        /\ cleared' = FALSE

SelectOptionCall(index) ==
    LET t == _select_option(Here, index)
    IN  /\ HostStep(t, "_select_option", index)
        /\ confirmed' = (InRange(index) /\ Quiescent(t, queue))
        /\ preselected' = None
        /\ cleared' = FALSE

\* The clock: every armed timer runs down.
Tick ==
    /\ \E k \in 1..MaxTimers : timers[k].armed /\ timers[k].remaining > 0
    /\ Becomes([Here EXCEPT !.timers =
           [k \in 1..MaxTimers |->
               IF timers[k].armed /\ timers[k].remaining > 0
               THEN [timers[k] EXCEPT !.remaining = @ - 1]
               ELSE timers[k]]])
    /\ sinceEdit' = IF sinceEdit < ASSIGNEE_SEARCH_DEBOUNCE_SECONDS
                    THEN sinceEdit + 1 ELSE sinceEdit
    /\ last' = Op("tick", 0, "clock")
    /\ UNCHANGED <<variant, request, wire, confirmed, edit, emitted, preselected, cleared>>

\* A timer that has run down calls its callback, once:
\* self.post_message(self.UserSearchRequested(query)).
TimerFires(k) ==
    /\ timers[k].armed
    /\ timers[k].remaining = 0
    /\ Len(posted) < MaxPosted
    /\ Becomes([Here EXCEPT !.timers[k] = Idle,
                            !.posted = Append(@, timers[k].query)])
    /\ emitted' = Append(emitted, [query |-> timers[k].query, age |-> sinceEdit])
    /\ last' = Op("timer", k, "clock")
    /\ UNCHANGED <<variant, request, wire, confirmed, edit, sinceEdit, preselected, cleared>>

\* The host handles a UserSearchRequested: it sends the search to the
\* backend and passes the candidates of the answer on (none when the search
\* failed or found nothing).  Answers come in any order.  What the backend
\* answers does not depend on the model's state, so the request itself is
\* left to SpecAdapter.
Without(q, i) == SubSeq(q, 1, i - 1) \o SubSeq(q, i + 1, Len(q))

HandleUserSearchRequested(i, options) ==
    /\ i \in 1..Len(posted)
    /\ Becomes(set_options([Here EXCEPT !.posted = Without(posted, i)], options))
    /\ last' = Op("search", 0, "host")
    /\ UNCHANGED <<variant, request, wire, confirmed, edit, sinceEdit, emitted,
                   preselected, cleared>>

\* A caller of the API client searches the assignable users of an issue.
UserAssignableSearch(issue_key, query) ==
    /\ request' = [issue_key |-> issue_key, query |-> query]
    /\ wire' = SearchParameterAdapter(variant, issue_key, query)
    /\ last' = Op("user_assignable_search", 0, "host")
    /\ UNCHANGED <<widget, queue, timers, posted, mounted, variant, raised, confirmed,
                   edit, sinceEdit, emitted, preselected, cleared>>

Init ==
    /\ _selection = None
    /\ _options = <<>>
    /\ _search_timer = NoTimer
    /\ _programmatic_update = FALSE
    /\ _options_visible = FALSE
    /\ value = <<>>
    /\ prompts = <<>>
    /\ highlighted = NoIndex
    /\ display = "none"
    /\ queue = <<>>
    /\ timers = [k \in 1..MaxTimers |-> Idle]
    /\ posted = <<>>
    /\ mounted = TRUE
    /\ variant = "cloud"
    /\ request = [issue_key |-> None, query |-> NoText]
    /\ wire = <<>>
    /\ raised = None
    /\ last = Op("init", 0, "host")
    /\ confirmed = FALSE
    /\ edit = [query |-> <<>>, src |-> "none", rapid |-> FALSE]
    /\ sinceEdit = 0
    /\ emitted = <<>>
    /\ preselected = None
    /\ cleared = FALSE

Next ==
    \/ \E c \in Chars : TypeChar(c)
    \/ Backspace
    \/ PressEnter
    \/ \E key \in {"down", "up", "escape"} : PressKey(key)
    \/ Deliver
    \/ \E options \in OptionLists : SetOptionsCall(options)
    \/ \E account_id \in AccountIds : SetValueCall(account_id)
    \/ ClearCall
    \/ \E items \in OptionLists, selection \in Preselections :
           WatchUsers(items, selection)
    \/ \E index \in -1..MaxOptions : SelectOptionCall(index)
    \/ Tick
    \/ \E k \in 1..MaxTimers : TimerFires(k)
    \/ \E i \in 1..MaxPosted, options \in OptionLists :
           HandleUserSearchRequested(i, options)

Spec == Init /\ [][Next]_vars

\* The API client alone, for either backend variant.
InitAdapter ==
    \E v \in {"cloud", "dc"} :
        /\ variant = v
        /\ wire = SearchParameterAdapter(v, None, NoText)
        /\ request = [issue_key |-> None, query |-> NoText]
        /\ _selection = None
        /\ _options = <<>>
        /\ _search_timer = NoTimer
        /\ _programmatic_update = FALSE
        /\ _options_visible = FALSE
        /\ value = <<>>
        /\ prompts = <<>>
        /\ highlighted = NoIndex
        /\ display = "none"
        /\ queue = <<>>
        /\ timers = [k \in 1..MaxTimers |-> Idle]
        /\ posted = <<>>
        /\ mounted = TRUE
        /\ raised = None
        /\ last = Op("user_assignable_search", 0, "host")
        /\ confirmed = FALSE
        /\ edit = [query |-> <<>>, src |-> "none", rapid |-> FALSE]
        /\ sinceEdit = 0
        /\ emitted = <<>>
        /\ preselected = None
        /\ cleared = FALSE

NextAdapter == \E issue_key \in IssueKeys, query \in Queries :
                   UserAssignableSearch(issue_key, query)

SpecAdapter == InitAdapter /\ [][NextAdapter]_vars

\* The widget from its construction on: the host may call its methods before
\* Textual has mounted it, when compose() has not yet made the Input and the
\* OptionList.
Mount ==
    /\ ~mounted
    /\ mounted' = TRUE
    /\ value' = <<>>
    /\ prompts' = <<>>
    /\ highlighted' = NoIndex
    /\ display' = "none"
    /\ raised' = None
    /\ last' = Op("mount", 0, "host")
    /\ confirmed' = FALSE
    /\ preselected' = None
    /\ cleared' = FALSE
    /\ UNCHANGED <<_selection, _options, _search_timer, _programmatic_update,
                   _options_visible, queue, timers, posted, variant, request, wire,
                   edit, sinceEdit, emitted>>

InitLifecycle ==
    /\ _selection = None
    /\ _options = <<>>
    /\ _search_timer = NoTimer
    /\ _programmatic_update = FALSE
    /\ _options_visible = FALSE
    /\ value = <<>>
    /\ prompts = <<>>
    /\ highlighted = NoIndex
    /\ display = "none"
    /\ queue = <<>>
    /\ timers = [k \in 1..MaxTimers |-> Idle]
    /\ posted = <<>>
    /\ mounted = FALSE
    /\ variant = "cloud"
    /\ request = [issue_key |-> None, query |-> NoText]
    /\ wire = <<>>
    /\ raised = None
    /\ last = Op("init", 0, "host")
    /\ confirmed = FALSE
    /\ edit = [query |-> <<>>, src |-> "none", rapid |-> FALSE]
    /\ sinceEdit = 0
    /\ emitted = <<>>
    /\ preselected = None
    /\ cleared = FALSE

NextLifecycle ==
    \/ Mount
    \/ ClearCall
    \/ \E items \in OptionLists, selection \in Preselections :
           WatchUsers(items, selection)
    \/ \E c \in Chars : TypeChar(c)
    \/ Backspace
    \/ Deliver
    \/ Tick
    \/ \E k \in 1..MaxTimers : TimerFires(k)
    \/ \E i \in 1..MaxPosted, options \in OptionLists :
           HandleUserSearchRequested(i, options)

SpecLifecycle == InitLifecycle /\ [][NextLifecycle]_vars

\* The work item key input alone.  value is the Input's text and queue its
\* message queue; edit is the user's last edit (query: its stripped text) and
\* emitted the notifications the handler's own writes have posted since.
\* An edit (typing, deleting, pasting) puts any other text into the Input;
\* a key that is waiting in the queue when the key before it is handled
\* makes its edit before the notification of the first one is handled.
WorkItemEdit(text) ==
    /\ Len(queue) < MaxNotifications
    /\ text # value
    /\ Becomes(InputSetValue(Here, text, "user"))
    /\ edit' = [query |-> Strip(text), src |-> "user", rapid |-> FALSE]
    /\ emitted' = <<>>
    /\ last' = Op("edit", 0, "user")
    /\ UNCHANGED <<variant, request, wire, confirmed, sinceEdit, preselected, cleared>>

\* The message pump takes the next notification and runs clean_value.
WorkItemDeliver ==
    /\ queue # <<>>
    /\ Len(emitted) < MaxEchoes
    /\ LET m == Head(queue)
           s == [Here EXCEPT !.queue = Tail(queue)]
           t == clean_value(s, m)
       IN  /\ Becomes(t)
           /\ emitted' = IF Len(t.queue) > Len(s.queue)
                         THEN Append(emitted, [query |-> t.value, age |-> 0])
                         ELSE emitted
           /\ last' = Op("clean_value", 0, m.src)
    /\ UNCHANGED <<variant, request, wire, confirmed, edit, sinceEdit, preselected,
                   cleared>>

NextWorkItem ==
    \/ \E text \in TextsUpTo(MaxLen) : WorkItemEdit(text)
    \/ WorkItemDeliver

SpecWorkItem == Init /\ [][NextWorkItem]_vars

\* ------------------------------------------------------------- claims
Armed == {k \in 1..MaxTimers : timers[k].armed}
Short(query) == Len(query) < FULL_TEXT_SEARCH_DEFAULT_MINIMUM_TERM_LENGTH

\* C1: once a selection has been confirmed the list stays hidden through
\* every idle tick (queued change notifications handled, timers running down
\* and firing, the host answering each UserSearchRequested through
\* set_options) until the user presses a key or the host calls the widget.
\* It is stated for the confirmations made when nothing was pending that
\* could show the list by itself.  The code breaks it.
C1_HiddenAfterConfirm == confirmed => ~_options_visible

\* C2: the change notification of a programmatic write is inert: handling it
\* changes neither the selection nor the timer handle nor any timer (so no
\* search is scheduled or cancelled).  The code breaks it.
C2_EchoInert ==
    [][(/\ queue # <<>>
        /\ Head(queue).type = "Changed"
        /\ Head(queue).src = "prog"
        /\ last'.op = "changed")
       => UNCHANGED <<_selection, _search_timer, timers>>]_vars

\* C3: after a user's text change whose trimmed text is below the minimum
\* term length has been handled, no UserSearchRequested has been posted for
\* it and no timer is armed any more, so none fires afterwards.
C3_ShortTextNoSearch ==
    (edit.src = "user" /\ Short(edit.query)) => (emitted = <<>> /\ Armed = {})

\* C3's case: the change stopped a timer that was still running.
C3_Witness ==
    /\ last.op = "changed"
    /\ edit.src = "user"
    /\ Short(edit.query)
    /\ edit.rapid
    /\ Armed = {}

\* C4: after a user's text change has been handled, at most one
\* UserSearchRequested is posted until the next change is handled; it is
\* posted no sooner than the debounce interval after that change and carries
\* that change's trimmed text.
C4_OneTrailingSearch ==
    edit.src = "user" =>
        /\ Len(emitted) <= 1
        /\ \A i \in 1..Len(emitted) :
               /\ emitted[i].query = edit.query
               /\ emitted[i].age >= ASSIGNEE_SEARCH_DEBOUNCE_SECONDS

\* C4's case: the last of several rapid edits produced the one search.
C4_Witness ==
    /\ last.op = "timer"
    /\ edit.src = "user"
    /\ edit.rapid
    /\ Len(emitted) = 1
    /\ emitted[1].query = edit.query

\* C5: confirming the option at a valid index (Enter on the highlighted
\* option of the visible list, or _select_option called) leaves, in one step,
\* selection = options[index].id, the input text = options[index].label and
\* the list hidden.
C5_ConfirmSelects ==
    (last.op \in {"submitted", "_select_option"} /\ InRange(last.idx)) =>
        /\ _selection = _options[last.idx + 1].aid
        /\ value = _options[last.idx + 1].name
        /\ ~_options_visible
        /\ display = "none"

\* C5's case: Enter confirmed the second option of the visible list.
C5_Witness ==
    /\ last.op = "submitted"
    /\ last.idx = 1
    /\ InRange(last.idx)
    /\ _selection = _options[2].aid

\* C6: set_options([]) leaves the list hidden; set_options(L) with a
\* non-empty L leaves it visible, the first option highlighted, options = L.
AfterSetOptions(L) ==
    /\ _options = L
    /\ prompts = Names(L)
    /\ IF L = <<>>
       THEN ~_options_visible /\ display = "none"
       ELSE _options_visible /\ display = "block" /\ highlighted = 0

C6_SetOptions ==
    [][\A L \in OptionLists :
         (\/ SetOptionsCall(L)
          \/ \E i \in 1..MaxPosted : HandleUserSearchRequested(i, L))
         => AfterSetOptions(L)']_vars

\* C6's case: set_options replaced a list whose second option was highlighted.
C6_Witness ==
    /\ last.op = "set_options"
    /\ _options = <<Adam>>
    /\ _options_visible
    /\ highlighted = 0
    /\ _selection # None

\* C7: whenever the list is visible the candidate list is not empty.
C7_VisibleHasOptions == _options_visible => _options # <<>>

\* C7's case: the list is visible although watch_users replaced the
\* candidates behind it.
C7_Witness ==
    /\ last.op = "watch_users"
    /\ _options_visible
    /\ prompts # Names(_options)

C9_BadIndexIgnored ==
    [][(last'.op = "_select_option" /\ ~InRange(last'.idx))
       => (/\ UNCHANGED <<_selection, value, _options, _options_visible>>
           /\ raised' = None)]_vars

\* C10: a search with a non-empty text puts the text on the wire under
\* exactly one name: query for the cloud variant, username for the
\* self-hosted one, and never the other variant's name.
C10_OneNamePerVariant ==
    (request.query # NoText /\ request.query # Some(<<>>)) =>
        /\ variant = "cloud" =>
               /\ "query" \in DOMAIN wire
               /\ wire["query"] = request.query[1]
               /\ "username" \notin DOMAIN wire
        /\ variant = "dc" =>
               /\ "username" \in DOMAIN wire
               /\ wire["username"] = request.query[1]
               /\ "query" \notin DOMAIN wire

\* C10's case: a text sent to the self-hosted variant, for an issue.
C10_Witness ==
    /\ variant = "dc"
    /\ request.issue_key = "ABC-1"
    /\ request.query = Some(<<"a", "a", "a">>)
    /\ DOMAIN wire = {"username", "issueKey"}

\* C11: a search whose text is absent (None) or empty puts neither query
\* nor username on the wire, for either variant: the name is left out, not
\* sent with an empty value.
C11_NoTextNoName ==
    (request.query = NoText \/ request.query = Some(<<>>)) =>
        /\ "query" \notin DOMAIN wire
        /\ "username" \notin DOMAIN wire

\* C11's case: an empty text sent to the self-hosted variant, for an issue.
C11_Witness ==
    /\ variant = "dc"
    /\ request.issue_key = "ABC-1"
    /\ request.query = Some(<<>>)
    /\ DOMAIN wire = {"issueKey"}

\* C12: right after clear() the selection is None, the candidate list is
\* empty, the input text is empty and the list is hidden.
C12_ClearResets ==
    last.op = "clear" =>
        /\ _selection = None
        /\ _options = <<>>
        /\ value = <<>>
        /\ ~_options_visible
        /\ display = "none"

\* C12's case: clear() emptied an input that had a text (its notification
\* is waiting) while the OptionList held rows and a timer was running.
C12_Witness ==
    /\ last.op = "clear"
    /\ _options = <<>>
    /\ prompts # <<>>
    /\ queue # <<>>
    /\ Armed # {}

\* C13: set_value(id) with the id of a known candidate, called directly or
\* through watch_users with a selection entry, leaves selection = id, the
\* candidate's label in the input and the list hidden, and afterwards no
\* UserSearchRequested is posted until the user presses a key or the host
\* calls the widget again.  It is stated for the calls made when nothing was
\* pending that could post a search by itself.  The code breaks it.
C13_PreselectQuiet ==
    preselected # None =>
        /\ last.op \in {"set_value", "watch_users"} =>
               /\ _selection = preselected
               /\ value = _options[FirstMatch(_options, preselected)].name
               /\ ~_options_visible
        /\ last.op # "timer"

\* C14: Escape leaves the list hidden, whatever it was before, and changes
\* neither the selection nor the input text nor the candidates.
C14_EscapeHides ==
    [][last'.op = "key:escape"
       => (/\ ~_options_visible'
           /\ display' = "none"
           /\ UNCHANGED <<_selection, value, _options>>)]_vars

\* C14's case: Escape closed a visible list while a candidate was selected.
C14_Witness ==
    /\ last.op = "key:escape"
    /\ last.idx # NoIndex
    /\ ~_options_visible
    /\ _selection # None

\* C15: at most one timer is armed, and it is the one _search_timer refers
\* to (the one scheduled last: scheduling stops the one before); so the
\* timer that fires is never a stopped one, and once it has fired no timer
\* is armed that could fire again.
C15_OnePending ==
    /\ Cardinality(Armed) <= 1
    /\ Armed \subseteq {_search_timer}
    /\ last.op = "timer" => (last.idx = _search_timer /\ Armed = {})

\* C15's case: a change scheduled a timer while the one before was running.
C15_Witness ==
    /\ last.op = "changed"
    /\ edit.rapid
    /\ ~Short(edit.query)
    /\ Armed = {_search_timer}

\* C16: a step that changes the selection to an id leaves that id among the
\* ids of the candidates _options holds after the step.
C16_SelectionFromOptions ==
    [][(_selection' # None /\ _selection' # _selection)
       => \E i \in 1..Len(_options') : _options'[i].aid = _selection']_vars

\* C16's case: watch_users brought the candidates and preselected one.
C16_Witness ==
    /\ last.op = "watch_users"
    /\ preselected = "id2"
    /\ _selection = "id2"
    /\ \E i \in 1..Len(_options) : _options[i].aid = "id2"

C18_GuardScoped == ~_programmatic_update

C20_SetOptionsFrame ==
    [][last'.op \in {"set_options", "search"} =>
          /\ prompts' = Names(_options')
          /\ UNCHANGED <<_selection, value, _search_timer, _programmatic_update,
                         timers, queue>>]_vars

\* C20's case: the answer to a search was empty while a candidate was selected.
C20_Witness ==
    /\ last.op = "search"
    /\ _options = <<>>
    /\ ~_options_visible
    /\ _selection # None

\* C21: whenever the list is visible the rows of the OptionList are the
\* labels of _options, in the same order (so Enter on a row selects the
\* candidate whose label the row shows).  The code breaks it: watch_users
\* replaces _options and leaves the OptionList as it is.
C21_RowsAreOptions == _options_visible => prompts = Names(_options)

\* C22: after clear() was called while the timer for a text the user typed
\* was running, the widget stays idle until the user presses a key or the
\* host calls it again: no
\* UserSearchRequested is posted (no timer fires), the list stays hidden and
\* the selection None.  The code breaks it: clear() does not stop the timer.
C22_ClearStaysIdle ==
    cleared =>
        /\ last.op # "timer"
        /\ ~_options_visible
        /\ _selection = None

\* C23: the notifications one user edit sets off come to an end: the
\* handler's write-back posts at most one notification of its own, handling
\* that one posts none, and when none is waiting the Input holds the
\* stripped text of the edit.  The code breaks it when the notifications
\* of two edits wait in the queue together.
C23_CleanValueSettles ==
    /\ Len(emitted) <= 1
    /\ (last.op = "clean_value" /\ last.src = "prog") => queue = <<>>
    /\ queue = <<>> => value = edit.query
====
